---- MODULE Spec2Model ----
(***************************************************************************)
(* The front-end of the blastfurnace compiler: the per-module resolution   *)
(* walk over a lexical scope table (resolver.rs), the package merger       *)
(* (package.rs, merged_module.rs) and the type insertion pass              *)
(* (insert_types.rs).                                                      *)
(***************************************************************************)
EXTENDS Integers, Sequences, FiniteSets, Bags, TLC

VARIABLES scope_table, ctl, issued, lastRef, status, err,
          package, public_definitions, private_definitions, linked, mstatus, merr,
          program, todo, tstatus, terr, run, first, lastStmt, lastFn,
          name_path, result

rvars == <<scope_table, ctl, issued, lastRef, status, err>>

mvars == <<package, public_definitions, private_definitions, linked, mstatus, merr>>

tvars == <<program, todo, tstatus, terr, run, first, lastStmt, lastFn>>

pvars == <<name_path, result>>

vars == <<rvars, mvars, tvars, pvars>>

(***************************************************************************)
(* Bounds of the model.                                                    *)
(***************************************************************************)
MaxDepth == 3
MaxDefs == 3
MaxArgs == 1

Raws == {"x", "y"}
Kinds == {"Var", "Fn", "Struct"}
None == "None"
NoErr == [type |-> "None", raw |-> ""]
NoRef == [kind |-> "None", raw |-> "", name |-> None]

SeqsUpTo(S, n) == UNION {[1..k -> S] : k \in 0..n}

(***************************************************************************)
(* ScopeTable: a stack of frames, each a set of bindings of a raw name of  *)
(* one symbol kind to a resolved name, and the shadow counter of each raw  *)
(* name, which only grows.                                                 *)
(***************************************************************************)
name_format(raw, n) == ToString(n) \o "_" \o raw

ScopeTable_new == [frames |-> <<>>, count |-> [r \in Raws |-> 0]]

scope_enter(t) == [t EXCEPT !.frames = Append(@, {})]

scope_exit(t) == [t EXCEPT !.frames = SubSeq(@, 1, Len(@) - 1)]

RECURSIVE lookup_from(_, _, _, _)
lookup_from(frames, i, raw, kind) ==
    IF i = 0 THEN None
    ELSE LET hit == {b \in frames[i] : b.raw = raw /\ b.kind = kind}
         IN  IF hit # {} THEN (CHOOSE b \in hit : TRUE).name
             ELSE lookup_from(frames, i - 1, raw, kind)

scope_lookup(t, raw, kind) == lookup_from(t.frames, Len(t.frames), raw, kind)

scope_bind(t, raw, kind) ==
    LET top == Len(t.frames)
        name == name_format(raw, t.count[raw])
    IN  IF \E b \in t.frames[top] : b.raw = raw /\ b.kind = kind
        THEN [ok |-> FALSE, t |-> t, name |-> None,
              err |-> [type |-> "Redefinition", raw |-> raw]]
        ELSE [ok |-> TRUE,
              t |-> [frames |-> [t.frames EXCEPT ![top] =
                                   @ \cup {[kind |-> kind, raw |-> raw, name |-> name]}],
                     count |-> [t.count EXCEPT ![raw] = @ + 1]],
              name |-> name, err |-> NoErr]

(***************************************************************************)
(* Registrable: the definition's reference receives the name scope_bind    *)
(* mints.  A result carries the table, the definitions named so far and    *)
(* the error, if any.                                                      *)
(***************************************************************************)
Def(kind, raw, name) == [kind |-> kind, raw |-> raw, name |-> name]

Registered(b, kind, raw) ==
    [ok |-> b.ok, t |-> b.t, err |-> b.err,
     defs |-> IF b.ok THEN <<Def(kind, raw, b.name)>> ELSE <<>>]

VarDef_register_unbound(t, raw) ==
    LET b == scope_bind(t, raw, "Var")
    IN  Registered([b EXCEPT !.name = IF b.ok THEN name_format(raw, 0) ELSE None],
                   "Var", raw)

VarDef_register(t, raw) == Registered(scope_bind(t, raw, "Var"), "Var", raw)

StructDef_register(t, raw) == Registered(scope_bind(t, raw, "Struct"), "Struct", raw)

RECURSIVE register_args(_, _, _, _)
register_args(t, args, i, defs) ==
    IF i > Len(args) THEN [ok |-> TRUE, t |-> t, err |-> NoErr, defs |-> defs]
    ELSE LET r == VarDef_register(t, args[i])
         IN  IF r.ok THEN register_args(r.t, args, i + 1, defs \o r.defs)
             ELSE [ok |-> FALSE, t |-> r.t, err |-> r.err, defs |-> defs]

FnDef_register(t, raw, args) ==
    LET r == Registered(scope_bind(t, raw, "Fn"), "Fn", raw)
    IN  IF r.ok THEN register_args(r.t, args, 1, r.defs) ELSE r

(***************************************************************************)
(* Resolvable, the reference sites.  An expression is the sequence of its  *)
(* reference sites in the order Expression::resolve reaches them.          *)
(***************************************************************************)
Ref(kind, raw, name) == [kind |-> kind, raw |-> raw, name |-> name]

Found(kind, raw, name) ==
    IF name # None
    THEN [ok |-> TRUE, name |-> name, err |-> NoErr]
    ELSE [ok |-> FALSE, name |-> None,
          err |-> [type |-> "UndefinedVariable", raw |-> raw]]

NamePath_resolve(t, raw) == Found("Var", raw, scope_lookup(t, raw, "Var"))

FnCall_resolve(t, raw) == Found("Fn", raw, scope_lookup(t, raw, "Fn"))

\* The expressions walked: no reference site, or one.
Sites == [kind : {"Var", "Fn"}, raw : Raws]
Exprs == {<<>>} \cup {<<s>> : s \in Sites}

RECURSIVE resolve_from(_, _, _, _)
resolve_from(t, refs, i, cur) ==
    IF i > Len(refs) THEN [ok |-> TRUE, last |-> cur, err |-> NoErr]
    ELSE LET r == IF refs[i].kind = "Var" THEN NamePath_resolve(t, refs[i].raw)
                  ELSE FnCall_resolve(t, refs[i].raw)
         IN  IF r.ok
             THEN resolve_from(t, refs, i + 1, Ref(refs[i].kind, refs[i].raw, r.name))
             ELSE [ok |-> FALSE, last |-> cur, err |-> r.err]

Expression_resolve(t, refs) == resolve_from(t, refs, 1, NoRef)

\* VarDef::resolve: a struct type's reference, then the binding of the name.
VarDef_struct_name(t, sraw) ==
    LET n == scope_lookup(t, sraw, "Struct")
    IN  IF n # None THEN n ELSE name_format(sraw, 0)

VarDef_resolve(t, raw, ty) == VarDef_register(t, raw)

(***************************************************************************)
(* The walk.  ctl is the stack of the Block and FnDef calls of resolve     *)
(* that are open, each with the lookups that held when it was entered;     *)
(* lastRef is the last reference site the statement just walked resolved.  *)
(***************************************************************************)
Seen(t) == [k \in Kinds, r \in Raws |-> scope_lookup(t, r, k)]

Open(c, t) == [c |-> c, seen |-> Seen(t), depth |-> Len(t.frames)]

Top == ctl[Len(ctl)]

Pop(s) == SubSeq(s, 1, Len(s) - 1)

NDefs == BagCardinality(issued)

AddDefs(defs) == issued (+) [d \in {defs[i] : i \in DOMAIN defs} |->
                              Cardinality({i \in DOMAIN defs : defs[i] = d})]

InBlock == status = "walking" /\ ctl # <<>> /\ Top.c = "Block"

Fail(e) == status' = "err" /\ err' = e

RInit ==
    /\ scope_table = ScopeTable_new
    /\ ctl = <<>>
    /\ issued = EmptyBag
    /\ lastRef = NoRef
    /\ status = "start"
    /\ err = NoErr

\* Block::resolve up to its first statement (the module's block first).
Block_enter ==
    /\ UNCHANGED <<mvars, tvars, pvars>>
    /\ status = "start" \/ InBlock
    /\ Len(scope_table.frames) < MaxDepth
    /\ scope_table' = scope_enter(scope_table)
    /\ ctl' = Append(ctl, Open("Block", scope_table))
    /\ status' = "walking"
    /\ lastRef' = NoRef
    /\ UNCHANGED <<issued, err>>

Block_exit_keep ==
    /\ UNCHANGED <<mvars, tvars, pvars>>
    /\ InBlock
    /\ ctl' = Pop(ctl)
    /\ status' = IF Len(ctl) = 1 THEN "ok" ELSE "walking"
    /\ lastRef' = NoRef
    /\ UNCHANGED <<scope_table, issued, err>>

\* Block::resolve after its last statement.
Block_exit ==
    /\ UNCHANGED <<mvars, tvars, pvars>>
    /\ InBlock
    /\ scope_table' = scope_exit(scope_table)
    /\ ctl' = Pop(ctl)
    /\ status' = IF Len(ctl) = 1 THEN "ok" ELSE "walking"
    /\ lastRef' = NoRef
    /\ UNCHANGED <<issued, err>>

\* FnDef::resolve up to the first statement of the body.
FnDef_enter(raw, args) ==
    /\ UNCHANGED <<mvars, tvars, pvars>>
    /\ InBlock
    /\ Len(scope_table.frames) + 2 <= MaxDepth
    /\ NDefs + 1 + Len(args) <= MaxDefs
    /\ LET t1 == scope_enter(scope_table)
           r == FnDef_register(t1, raw, args)
       IN  /\ issued' = AddDefs(r.defs)
           /\ IF r.ok
              THEN /\ scope_table' = scope_enter(r.t)
                   /\ ctl' = ctl \o <<Open("FnDef", scope_table), Open("Block", r.t)>>
                   /\ UNCHANGED <<status, err>>
              ELSE /\ scope_table' = r.t
                   /\ ctl' = Append(ctl, Open("FnDef", scope_table))
                   /\ Fail(r.err)
    /\ lastRef' = NoRef

\* FnDef::resolve after body.resolve returned.
FnDef_exit ==
    /\ UNCHANGED <<mvars, tvars, pvars>>
    /\ status = "walking" /\ ctl # <<>> /\ Top.c = "FnDef"
    /\ scope_table' = scope_exit(scope_table)
    /\ ctl' = Pop(ctl)
    /\ lastRef' = NoRef
    /\ UNCHANGED <<issued, status, err>>

\* VarDecl::resolve: the initializer, then the VarDef.  ty is None or the
\* raw name of the struct the declared type names.
VarDecl_resolve(raw, ty, refs) ==
    /\ UNCHANGED <<mvars, tvars, pvars>>
    /\ InBlock
    /\ NDefs < MaxDefs
    /\ LET e == Expression_resolve(scope_table, refs)
           s == IF ty = None THEN e.last
                ELSE Ref("Struct", ty, VarDef_struct_name(scope_table, ty))
           r == VarDef_resolve(scope_table, raw, ty)
       IN  IF ~e.ok
           THEN /\ lastRef' = e.last
                /\ Fail(e.err)
                /\ UNCHANGED <<scope_table, issued>>
           ELSE /\ lastRef' = s
                /\ scope_table' = r.t
                /\ issued' = AddDefs(r.defs)
                /\ IF r.ok THEN UNCHANGED <<status, err>> ELSE Fail(r.err)
    /\ UNCHANGED ctl

\* VarAssign::resolve: the name path's head, then the expression.
VarAssign_resolve(raw, refs) ==
    /\ UNCHANGED <<mvars, tvars, pvars>>
    /\ InBlock
    /\ LET e == Expression_resolve(scope_table, <<[kind |-> "Var", raw |-> raw]>> \o refs)
       IN  /\ lastRef' = e.last
           /\ IF e.ok THEN UNCHANGED <<status, err>> ELSE Fail(e.err)
    /\ UNCHANGED <<scope_table, ctl, issued>>

\* StructDef::resolve.
StructDef_resolve(raw) ==
    /\ UNCHANGED <<mvars, tvars, pvars>>
    /\ InBlock
    /\ NDefs < MaxDefs
    /\ LET r == StructDef_register(scope_table, raw)
       IN  /\ scope_table' = r.t
           /\ issued' = AddDefs(r.defs)
           /\ IF r.ok THEN UNCHANGED <<status, err>> ELSE Fail(r.err)
    /\ lastRef' = NoRef
    /\ UNCHANGED ctl

\* Statement::Return and Statement::Expression: Expression::resolve.
Statement_expression(refs) ==
    /\ UNCHANGED <<mvars, tvars, pvars>>
    /\ InBlock
    /\ refs # <<>>
    /\ LET e == Expression_resolve(scope_table, refs)
       IN  /\ lastRef' = e.last
           /\ IF e.ok THEN UNCHANGED <<status, err>> ELSE Fail(e.err)
    /\ UNCHANGED <<scope_table, ctl, issued>>

\* If::resolve and While::resolve: the condition, then the body's block.
If_resolve(refs) ==
    /\ UNCHANGED <<mvars, tvars, pvars>>
    /\ InBlock
    /\ Len(scope_table.frames) < MaxDepth
    /\ LET e == Expression_resolve(scope_table, refs)
       IN  /\ lastRef' = e.last
           /\ IF e.ok
              THEN /\ scope_table' = scope_enter(scope_table)
                   /\ ctl' = Append(ctl, Open("Block", scope_table))
                   /\ UNCHANGED <<status, err>>
              ELSE /\ Fail(e.err)
                   /\ UNCHANGED <<scope_table, ctl>>
    /\ UNCHANGED issued

RNext ==
    \/ Block_enter
    \/ Block_exit
    \/ \E raw \in Raws, args \in SeqsUpTo(Raws, MaxArgs) : FnDef_enter(raw, args)
    \/ FnDef_exit
    \/ \E raw \in Raws, ty \in {None} \cup Raws, refs \in Exprs :
           VarDecl_resolve(raw, ty, refs)
    \/ \E raw \in Raws, refs \in Exprs : VarAssign_resolve(raw, refs)
    \/ \E raw \in Raws : StructDef_resolve(raw)
    \/ \E refs \in Exprs : Statement_expression(refs)
    \/ \E refs \in Exprs : If_resolve(refs)

(***************************************************************************)
(* The package merger.  A module is named by the segments of its path      *)
(* below the package root; a definition carries its module, its kind, its  *)
(* raw and module-resolved names and whether its module lists it as pub.   *)
(***************************************************************************)
package_name == "pkg"

RootPath == "/root"

RECURSIVE join_slash(_)
join_slash(segs) ==
    IF segs = <<>> THEN "" ELSE "/" \o Head(segs) \o join_slash(Tail(segs))

path_of(m) == RootPath \o join_slash(m)

GlobalName(module, name) == [module |-> module, name |-> name]

is_local(seg) == seg = "root" \/ seg = package_name

use_module_rooted(path) ==
    IF is_local(path[1]) THEN RootPath \o join_slash(Tail(path))
    ELSE "/" \o path[1] \o join_slash(Tail(path))

\* The module of the global name a `use` path gives its imported name.
use_module(path) ==
    IF is_local(path[1]) THEN join_slash(Tail(path))
    ELSE path[1] \o join_slash(Tail(path))

DefinitionTable_new ==
    [function_definitions |-> <<>>, struct_definitions |-> <<>>,
     global_var_definitions |-> <<>>]

MapOf(kind) ==
    CASE kind = "Fn" -> "function_definitions"
      [] kind = "Struct" -> "struct_definitions"
      [] kind = "Var" -> "global_var_definitions"

Keys(table, field) == {table[field][i].key : i \in DOMAIN table[field]}

Entries(table) ==
    UNION {{table[f][i] : i \in DOMAIN table[f]} :
              f \in {"function_definitions", "struct_definitions",
                     "global_var_definitions"}}

insert(table, kind, key, def) ==
    [table EXCEPT ![MapOf(kind)] = Append(@, [key |-> key, def |-> def])]

\* The definitions of the package's modules, module-resolved.
MDef(m, kind, raw, n, pub) ==
    [module |-> m, kind |-> kind, raw |-> raw, name |-> name_format(raw, n),
     pub |-> pub]

Root == <<>>
Example == <<"test", "example">>

MainDef == MDef(Root, "Fn", "main", 0, FALSE)

RootChoices ==
    { {}, {MDef(Root, "Struct", "s", 0, FALSE)},
      {MDef(Root, "Struct", "s", 0, FALSE), MDef(Root, "Var", "g", 0, FALSE)},
      {MDef(Root, "Var", "g", 0, TRUE)} }

\* The definitions of test/example.ing: any of `pub fn a`, `fn b` and
\* `pub struct b`, the struct after the function when both are there.
ExampleChoices ==
    {   (IF "fn_a" \in c THEN {MDef(Example, "Fn", "a", 0, TRUE)} ELSE {})
   \cup (IF "fn_b" \in c THEN {MDef(Example, "Fn", "b", 0, FALSE)} ELSE {})
   \cup (IF "struct_b" \in c
         THEN {MDef(Example, "Struct", "b", IF "fn_b" \in c THEN 1 ELSE 0, TRUE)}
         ELSE {}) : c \in SUBSET {"fn_a", "fn_b", "struct_b"} }

UsePaths ==
    {<<"root", "test", "example">>, <<package_name, "test", "example">>,
     <<"std", "test", "example">>, <<"std", "io">>}

NoUse == [path |-> <<>>, origin_name |-> ""]

Uses == {NoUse} \cup [path : UsePaths, origin_name : {"a", "b"}]

\* The reference sites of main's body: a call of the imported name, a call of
\* main itself, a use of the global g, and the struct type of g's VarDef.
MRef(id, kind, raw, n, import) ==
    [id |-> id, kind |-> kind, raw |-> raw, module_resolved |-> name_format(raw, n),
     import |-> import]

RefsOf(defs, use) ==
    {MRef("call_main", "Fn", "main", 0, FALSE)}
    \cup (IF use # NoUse THEN {MRef("call_import", "Fn", use.origin_name, 0, TRUE)}
          ELSE {})
    \cup (IF \E d \in defs : d.raw = "g" THEN {MRef("use_g", "Var", "g", 0, FALSE)}
          ELSE {})
    \cup (IF \E d \in defs : d.raw = "s" THEN {MRef("type_s", "Struct", "s", 0, FALSE)}
          ELSE {})

MInit ==
    /\ \E rd \in RootChoices, ed \in ExampleChoices, u \in Uses :
           package = [defs |-> {MainDef} \cup rd \cup ed, use |-> u,
                      refs |-> RefsOf(rd, u)]
    /\ public_definitions = DefinitionTable_new
    /\ private_definitions = DefinitionTable_new
    /\ linked = <<>>
    /\ mstatus = "hoist"
    /\ merr = "None"

MIdle ==
    /\ package = [defs |-> {}, use |-> NoUse, refs |-> {}]
    /\ public_definitions = DefinitionTable_new
    /\ private_definitions = DefinitionTable_new
    /\ linked = <<>>
    /\ mstatus = "idle"
    /\ merr = "None"

KeyOf(d) == GlobalName(path_of(d.module), d.name)

Hoisted == {e.def : e \in Entries(private_definitions) \cup Entries(public_definitions)}

Stamped(d) == [d EXCEPT !.pub = d.pub] @@ [global_resolved |-> KeyOf(d)]

install_private_partition(table, d) ==
    IF d.pub THEN table ELSE insert(table, d.kind, KeyOf(d), Stamped(d))

\* Every definition is installed in private_definitions.
install_private(table, d) == insert(table, d.kind, KeyOf(d), Stamped(d))

\* A definition its module lists as pub is installed in public_definitions.
install_public(table, d) ==
    IF d.pub THEN insert(table, d.kind, KeyOf(d), Stamped(d)) ELSE table

\* Phase 1 of merge_modules, one definition.
Hoist(d) ==
    /\ mstatus = "hoist"
    /\ d \in package.defs /\ Stamped(d) \notin Hoisted
    /\ IF KeyOf(d) \in Keys(private_definitions, MapOf(d.kind))
       THEN /\ mstatus' = "failed" /\ merr' = "InternalMergeConflict"
            /\ UNCHANGED <<public_definitions, private_definitions>>
       ELSE /\ private_definitions' = install_private(private_definitions, d)
            /\ public_definitions' = install_public(public_definitions, d)
            /\ UNCHANGED <<mstatus, merr>>
    /\ UNCHANGED <<package, linked, rvars, tvars, pvars>>

Hoist_done ==
    /\ mstatus = "hoist"
    /\ \A d \in package.defs : Stamped(d) \in Hoisted
    /\ mstatus' = "link"
    /\ UNCHANGED <<package, public_definitions, private_definitions, linked, merr, rvars, tvars, pvars>>

\* The public definition a local `use` names, if its module has one.
Targets(use) ==
    {d \in package.defs : d.module = Tail(use.path) /\ d.pub /\ d.raw = use.origin_name}

LinkedIds == {linked[i].id : i \in DOMAIN linked}

Resolve(r, g) == Append(linked, r @@ [global_resolved |-> g])

\* The name of the global name of a reference a foreign `use` introduced.
import_name_foreign(use) == name_format(use.origin_name, 0)

\* Phase 2 of merge_modules, one reference of main's body.
Link(r) ==
    /\ mstatus = "link"
    /\ r \in package.refs /\ r.id \notin LinkedIds
    /\ IF r.import
       THEN IF is_local(package.use.path[1])
            THEN IF Targets(package.use) = {}
                 THEN /\ mstatus' = "failed" /\ merr' = "UnresolvedImport"
                      /\ UNCHANGED linked
                 ELSE /\ linked' = Resolve(r, GlobalName(use_module(package.use.path),
                                     (CHOOSE d \in Targets(package.use) : TRUE).name))
                      /\ UNCHANGED <<mstatus, merr>>
            ELSE /\ linked' = Resolve(r, GlobalName(use_module(package.use.path),
                                                   import_name_foreign(package.use)))
                 /\ UNCHANGED <<mstatus, merr>>
       ELSE IF \E d \in package.defs : d.module = Root /\ d.name = r.module_resolved
            THEN /\ linked' = Resolve(r, GlobalName(path_of(Root), r.module_resolved))
                 /\ UNCHANGED <<mstatus, merr>>
            ELSE /\ mstatus' = "failed" /\ merr' = "UnresolvedReference"
                 /\ UNCHANGED linked
    /\ UNCHANGED <<package, public_definitions, private_definitions, rvars, tvars, pvars>>

\* merge_modules returns the MergedModule and Packager unwraps it.
Merge_done ==
    /\ mstatus = "link"
    /\ \A r \in package.refs : r.id \in LinkedIds
    /\ mstatus' = "merged"
    /\ UNCHANGED <<package, public_definitions, private_definitions, linked, merr, rvars, tvars, pvars>>

MNext ==
    \/ \E d \in package.defs : Hoist(d)
    \/ Hoist_done
    \/ \E r \in package.refs : Link(r)
    \/ Merge_done

RIdle ==
    /\ scope_table = ScopeTable_new
    /\ ctl = <<>>
    /\ issued = EmptyBag
    /\ lastRef = NoRef
    /\ status = "idle"
    /\ err = NoErr

(***************************************************************************)
(* The type insertion pass.  A Type is a tag and, for a struct, the name   *)
(* it refers to; NoType is the None of an Option<Type>.                    *)
(***************************************************************************)
MaxStmts == 2

Ty(tag) == [tag |-> tag, ref |-> ""]
StructTy(name) == [tag |-> "Struct", ref |-> name]
NoType == [tag |-> "None", ref |-> ""]
Numeric == {Ty("Int"), Ty("Float"), Ty("Double")}

Typed(ty) == [err |-> "None", ty |-> ty]
TypeErr(e) == [err |-> e, ty |-> NoType]

literal_types(lit) ==
    CASE lit = "Null" -> Ty("Void")
      [] lit = "Bool" -> Ty("Bool")
      [] lit = "Int" -> Ty("Int")
      [] lit = "Decimal" -> Ty("Double")
      [] lit = "String" -> Ty("String")
      [] lit = "Compound" -> Ty("Void")

unop_type_resolver(op, t) ==
    CASE op = "Neg" -> IF t \in Numeric THEN Typed(t) ELSE TypeErr("UnaryMismatch")
      [] op = "Not" -> IF t = Ty("Bool") THEN Typed(t) ELSE TypeErr("UnaryMismatch")
      [] op \in {"Ref", "Deref"} -> Typed(t)
      [] op \in {"PreInc", "PreDec", "PostInc", "PostDec"} ->
             IF t = Ty("Int") THEN Typed(t) ELSE TypeErr("UnaryMismatch")

binop_type_resolver(op, t0, t1) ==
    CASE op \in {"Add", "Sub", "Mul", "Div"} ->
             IF t0 = t1 /\ t0 \in Numeric THEN Typed(t0) ELSE TypeErr("BinaryMismatch")
      [] op = "Mod" ->
             IF t0 = t1 /\ t0 = Ty("Int") THEN Typed(t0) ELSE TypeErr("BinaryMismatch")
      [] op \in {"Lt", "Gt", "Leq", "Geq"} ->
             IF t0 = t1 /\ t0 \in Numeric THEN Typed(Ty("Bool"))
             ELSE TypeErr("BinaryMismatch")
      [] op \in {"Eq", "Neq"} ->
             IF t0 = t1 THEN Typed(Ty("Bool")) ELSE TypeErr("BinaryMismatch")
      [] op \in {"And", "Or"} ->
             IF t0 = Ty("Bool") /\ t1 = Ty("Bool") THEN Typed(Ty("Bool"))
             ELSE TypeErr("BinaryMismatch")

\* The AST nodes, as the parser and the merger leave them (no type_ yet).
Lit(lit) == [k |-> "Lit", lit |-> lit, type_ |-> NoType]
Variable(name, path) == [k |-> "Variable", name |-> name, path |-> path, type_ |-> NoType]
FnCall(name, args) == [k |-> "FnCall", name |-> name, args |-> args, type_ |-> NoType]
StructInit(name, fields) ==
    [k |-> "StructInit", name |-> name, fields |-> fields, type_ |-> NoType]
Unary(op, e) == [k |-> "Unary", op |-> op, e |-> e, type_ |-> NoType]
Binary(e0, op, e1) == [k |-> "Binary", e0 |-> e0, op |-> op, e1 |-> e1, type_ |-> NoType]

NoExpr == [k |-> "NoExpr"]
VarDef(name) == [name |-> name, type_ |-> NoType]
VarDecl(name, e) == [k |-> "VarDecl", var_def |-> VarDef(name), expr |-> e]
NamePath(name, path) == [name |-> name, path |-> path]
VarAssign(np, e) == [k |-> "VarAssign", name_path |-> np, expr |-> e]
Return(e) == [k |-> "Return", expr |-> e]
ExprStmt(e) == [k |-> "Expression", expr |-> e]
If(cond, body) == [k |-> "If", cond |-> cond, body |-> body]
While(cond, body) == [k |-> "While", cond |-> cond, body |-> body]

\* The variable types the first pass collected: x: Int, b: Bool, s: S,
\* v: Int (a global), fn f(..) -> Int, fn g() -> Void.
var_types ==
    [n \in {"x", "b", "s", "v", "f", "g"} |->
        CASE n \in {"x", "v", "f"} -> Ty("Int")
          [] n = "b" -> Ty("Bool")
          [] n = "s" -> StructTy("S")
          [] n = "g" -> Ty("Void")]

\* struct S { x: Int, t: S }
struct_definitions == [n \in {"S"} |-> [fields |-> [f \in {"x", "t"} |->
                          IF f = "x" THEN Ty("Int") ELSE StructTy("S")]]]

\* Option::unwrap of a visit's result.
Unwrapped(r) == IF r.err = "None" /\ r.ty = NoType THEN [r EXCEPT !.err = "panic"] ELSE r

\* Visitor::apply on an Expression, and Expression::visit, which visits no
\* child of its own since apply answers (false, type).
RECURSIVE visit_Expression(_)
visit_Expression(x) ==
    CASE x.k = "Lit" ->
             [node |-> [x EXCEPT !.type_ = literal_types(x.lit)],
              err |-> "None", ty |-> literal_types(x.lit)]
      [] x.k \in {"Variable", "FnCall"} ->
             [node |-> [x EXCEPT !.type_ = var_types[x.name]],
              err |-> "None", ty |-> var_types[x.name]]
      [] x.k = "StructInit" ->
             [node |-> [x EXCEPT !.type_ = StructTy(x.name)],
              err |-> "None", ty |-> StructTy(x.name)]
      [] x.k = "Unary" ->
             LET r == Unwrapped(visit_Expression(x.e))
                 u == unop_type_resolver(x.op, r.ty)
             IN  IF r.err # "None"
                 THEN [node |-> [x EXCEPT !.e = r.node], err |-> r.err, ty |-> NoType]
                 ELSE [node |-> [x EXCEPT !.e = r.node, !.type_ = u.ty],
                       err |-> u.err, ty |-> u.ty]
      [] x.k = "Binary" ->
             LET r0 == Unwrapped(visit_Expression(x.e0))
                 r1 == Unwrapped(visit_Expression(x.e1))
                 u == binop_type_resolver(x.op, r0.ty, r1.ty)
             IN  IF r0.err # "None"
                 THEN [node |-> [x EXCEPT !.e0 = r0.node], err |-> r0.err, ty |-> NoType]
                 ELSE IF r1.err # "None"
                 THEN [node |-> [x EXCEPT !.e0 = r0.node, !.e1 = r1.node],
                       err |-> r1.err, ty |-> NoType]
                 ELSE [node |-> [x EXCEPT !.e0 = r0.node, !.e1 = r1.node, !.type_ = u.ty],
                       err |-> u.err, ty |-> u.ty]

\* Visitor::apply, the VarDef arm.
apply_VarDef(x) == [x EXCEPT !.type_ = var_types[x.name]]

Leaf(before, after, e) == [before |-> before, after |-> after, err |-> e]

Visited(before, after, e) ==
    [node |-> after, err |-> e, last |-> Leaf(before, after, e)]

apply_VarDecl_unchecked(x) ==
    LET d == apply_VarDef(x.var_def)
        r == IF x.expr = NoExpr THEN [node |-> NoExpr, err |-> "None", ty |-> NoType]
             ELSE Unwrapped(visit_Expression(x.expr))
    IN  Visited(x, [x EXCEPT !.var_def = d, !.expr = r.node], r.err)

\* Visitor::apply, the VarDecl arm.
apply_VarDecl(x) ==
    LET d == apply_VarDef(x.var_def)
        r == IF x.expr = NoExpr THEN [node |-> NoExpr, err |-> "None", ty |-> NoType]
             ELSE Unwrapped(visit_Expression(x.expr))
        after == [x EXCEPT !.var_def = d, !.expr = r.node]
    IN  IF x.expr = NoExpr THEN Visited(x, after, "None")
        ELSE IF r.err # "None" THEN Visited(x, after, r.err)
        ELSE IF r.ty # d.type_ THEN Visited(x, after, "MultipleTypes")
        ELSE Visited(x, after, "None")

\* Visitor::apply, the VarAssign arm: the type of the name path's head
\* variable against the type of the expression.
apply_VarAssign(x) ==
    LET r == Unwrapped(visit_Expression(x.expr))
        after == [x EXCEPT !.expr = r.node]
    IN  IF r.err # "None" THEN Visited(x, after, r.err)
        ELSE IF var_types[x.name_path.name] # r.ty THEN Visited(x, after, "MultipleTypes")
        ELSE Visited(x, after, "None")

\* Statement::visit: apply answers (true, None) for a Statement, an If, a
\* While and a Block, so their children are visited in order.
RECURSIVE visit_Statement(_), visit_Block(_, _, _, _)
visit_Statement(x) ==
    CASE x.k = "VarDecl" -> apply_VarDecl(x)
      [] x.k = "VarAssign" -> apply_VarAssign(x)
      [] x.k \in {"Return", "Expression"} ->
             LET r == visit_Expression(x.expr)
             IN  Visited(x, [x EXCEPT !.expr = r.node], r.err)
      [] x.k \in {"If", "While"} ->
             LET c == visit_Expression(x.cond)
                 b == visit_Block(x.body, 1, <<>>, Leaf(x, [x EXCEPT !.cond = c.node], "None"))
                 after == [x EXCEPT !.cond = c.node, !.body = b.nodes]
             IN  IF c.err # "None" THEN Visited(x, [x EXCEPT !.cond = c.node], c.err)
                 ELSE [node |-> after, err |-> b.err,
                       last |-> IF x.body = <<>> THEN Leaf(x, after, "None") ELSE b.last]

\* The statements from the i-th on, up to the first error; done are the
\* visited ones, the rest is left as it was.
visit_Block(stmts, i, done, last) ==
    IF i > Len(stmts) THEN [nodes |-> done, err |-> "None", last |-> last]
    ELSE LET r == visit_Statement(stmts[i])
         IN  IF r.err # "None"
             THEN [nodes |-> Append(done, r.node) \o SubSeq(stmts, i + 1, Len(stmts)),
                   err |-> r.err, last |-> r.last]
             ELSE visit_Block(stmts, i + 1, Append(done, r.node), r.last)

(***************************************************************************)
(* The programs the pass is run on: fn f(..) -> Int and fn g() -> Void,    *)
(* struct S, and possibly the global `let v: Int = 1`.                     *)
(***************************************************************************)
One == Lit("Int")
Yes == Lit("Bool")
X == Variable("x", <<>>)
S_x == Variable("s", <<"x">>)
Call_f == FnCall("f", <<One>>)
New_S == StructInit("S", <<One>>)

Simple ==
    {VarDecl("x", NoExpr), VarDecl("x", One), VarDecl("x", Yes), VarDecl("x", S_x),
     VarDecl("s", New_S),
     VarAssign(NamePath("x", <<>>), One), VarAssign(NamePath("x", <<>>), Yes),
     VarAssign(NamePath("s", <<"x">>), One),
     VarAssign(NamePath("s", <<"x">>), Variable("s", <<>>)),
     ExprStmt(Call_f), ExprStmt(Unary("Neg", One)), ExprStmt(Unary("Not", One)),
     Return(Binary(One, "Add", X)), Return(Binary(One, "Add", Yes)), Return(Yes)}

Stmts ==
    Simple \cup {If(Binary(X, "Eq", One), <<VarDecl("x", Yes)>>),
                 While(Yes, <<ExprStmt(Call_f)>>)}

FnDef(name, body) == [name |-> name, return_type |-> var_types[name], body |-> body]

NoLeaf == Leaf(NoExpr, NoExpr, "None")

Programs ==
    [function_definitions :
         {[n \in {"f", "g"} |-> FnDef(n, IF n = "f" THEN bf ELSE bg)] :
             bf \in SeqsUpTo(Stmts, MaxStmts),
             bg \in {<<>>, <<VarAssign(NamePath("x", <<>>), One)>>,
                     <<VarAssign(NamePath("x", <<>>), Yes)>>}},
     global_var_definitions : {<<>>, <<VarDecl("v", One)>>}]

TInit ==
    /\ program \in Programs
    /\ todo = DOMAIN program.function_definitions
    /\ tstatus = "running"
    /\ terr = "None"
    /\ run = 1
    /\ first = program
    /\ lastStmt = NoLeaf
    /\ lastFn = ""

TIdle ==
    /\ program = [function_definitions |-> <<>>, global_var_definitions |-> <<>>]
    /\ todo = {}
    /\ tstatus = "idle"
    /\ terr = "None"
    /\ run = 0
    /\ first = program
    /\ lastStmt = NoLeaf
    /\ lastFn = ""

\* body.statements.drain(..).collect(): the statements taken, and what is
\* left in the body.
drain(body) == [taken |-> body, left |-> <<>>]

restore_reversed(statements) ==
    [i \in 1..Len(statements) |-> statements[Len(statements) + 1 - i]]

\* fn_body.body.statements = statements.
restore(statements) == statements

\* One turn of insert_types' loop over the keys of function_definitions,
\* which a HashMap yields in any order.
insert_types_fn(fn_name) ==
    /\ tstatus = "running"
    /\ fn_name \in todo
    /\ LET d == drain(program.function_definitions[fn_name].body)
           r == visit_Block(d.taken, 1, <<>>, lastStmt)
       IN  /\ lastStmt' = r.last
           /\ lastFn' = IF d.taken = <<>> THEN lastFn ELSE fn_name
           /\ IF r.err # "None"
              THEN /\ program' = [program EXCEPT
                                    !.function_definitions[fn_name].body = d.left]
                   /\ tstatus' = IF r.err = "panic" THEN "panic" ELSE "err"
                   /\ terr' = r.err
                   /\ UNCHANGED todo
              ELSE /\ program' = [program EXCEPT
                                    !.function_definitions[fn_name].body = restore(r.nodes)]
                   /\ todo' = todo \ {fn_name}
                   /\ UNCHANGED <<tstatus, terr>>
    /\ UNCHANGED <<run, first, rvars, mvars, pvars>>

\* insert_types returns Ok(()).
insert_types_ok ==
    /\ tstatus = "running"
    /\ todo = {}
    /\ tstatus' = "ok"
    /\ UNCHANGED <<program, todo, terr, run, first, lastStmt, lastFn, rvars, mvars, pvars>>

\* insert_types is called again on the program it returned Ok on.
insert_types_again ==
    /\ tstatus = "ok"
    /\ run = 1
    /\ run' = 2
    /\ first' = program
    /\ todo' = DOMAIN program.function_definitions
    /\ tstatus' = "running"
    /\ lastStmt' = NoLeaf
    /\ lastFn' = ""
    /\ UNCHANGED <<program, terr, rvars, mvars, pvars>>

TNext ==
    \/ \E fn_name \in todo : insert_types_fn(fn_name)
    \/ insert_types_ok
    \/ insert_types_again

(***************************************************************************)
(* get_type_from_name_path, applied to one name path.                      *)
(***************************************************************************)
MaxPath == 3

Fields == {"x", "t", "y"}

Returned(ty) == [status |-> "returned", ty |-> ty]
Panicked == [status |-> "panicked", ty |-> NoType]
NoResult == [status |-> "none", ty |-> NoType]

\* program.definitions.struct_definitions.get(name): the key found, or None.
struct_definitions_get(name) == IF name \in DOMAIN struct_definitions THEN name ELSE None

\* The loop over name_path.path from the i-th segment on.
RECURSIVE path_from(_, _, _, _)
path_from(path, i, return_type, struct_def) ==
    IF i > Len(path) THEN Returned(return_type)
    ELSE IF struct_def = None THEN Panicked
    ELSE IF path[i] \notin DOMAIN struct_definitions[struct_def].fields THEN Panicked
    ELSE LET ty == struct_definitions[struct_def].fields[path[i]]
         IN  path_from(path, i + 1, ty,
                       IF ty.tag = "Struct" THEN struct_definitions_get(ty.ref)
                       ELSE struct_def)

get_type_from_name_path(np) ==
    path_from(np.path, 1, StructTy(np.name), struct_definitions_get(np.name))

\* The name paths: a variable of var_types and up to MaxPath field names.
NamePaths == {NamePath(n, p) : n \in {"x", "b", "s", "v"}, p \in SeqsUpTo(Fields, MaxPath)}

PInit ==
    /\ name_path \in NamePaths
    /\ result = NoResult

PIdle ==
    /\ name_path = NamePath("", <<>>)
    /\ result = NoResult

get_type ==
    /\ result = NoResult
    /\ result' = get_type_from_name_path(name_path)
    /\ UNCHANGED <<name_path, rvars, mvars, tvars>>

PNext == get_type

Init == RInit /\ MIdle /\ TIdle /\ PIdle

Spec == Init /\ [][RNext]_vars

MergeInit == MInit /\ RIdle /\ TIdle /\ PIdle

MergeSpec == MergeInit /\ [][MNext]_vars

TypeInit == TInit /\ RIdle /\ MIdle /\ PIdle

TypeSpec == TypeInit /\ [][TNext]_vars

PathInit == PInit /\ RIdle /\ MIdle /\ TIdle

PathSpec == PathInit /\ [][PNext]_vars

(***************************************************************************)
(* Properties of the resolution walk.                                      *)
(***************************************************************************)
Defined == BagToSet(issued)

LiveIn(t, kind, raw) ==
    {i \in 1..Len(t.frames) : \E b \in t.frames[i] : b.kind = kind /\ b.raw = raw}

InnerName(t, kind, raw) ==
    LET top == CHOOSE i \in LiveIn(t, kind, raw) : \A j \in LiveIn(t, kind, raw) : j <= i
    IN  (CHOOSE b \in t.frames[top] : b.kind = kind /\ b.raw = raw).name

IsLive(d) == \E i \in 1..Len(scope_table.frames) : d \in scope_table.frames[i]

\* C1: no two distinct definitions of the module receive the same
\* module-resolved name, whatever their kinds and whichever scopes were
\* exited between them: each definition record was issued once, and two
\* records with one name are the same record.
C1_NoCollision ==
    \A d \in Defined :
        /\ CopiesIn(d, issued) = 1
        /\ \A e \in Defined : e.name = d.name => e = d

\* A variable x declared in two blocks that have both been exited, and a
\* third definition of another kind sharing the raw name.
C1_Witness ==
    /\ Def("Var", "x", "0_x") \in Defined /\ ~IsLive(Def("Var", "x", "0_x"))
    /\ Def("Var", "x", "1_x") \in Defined /\ ~IsLive(Def("Var", "x", "1_x"))
    /\ \E d \in Defined : d.raw = "x" /\ d.kind # "Var" /\ d.name = "2_x"

C2_Step ==
    /\ \A r \in Raws :
           LET o == scope_lookup(scope_table, r, "Var")
               new == {d \in BagToSet(issued') :
                          /\ d.kind = "Var" /\ d.raw = r
                          /\ CopiesIn(d, issued') > CopiesIn(d, issued)}
           IN  (o # None /\ new # {}) =>
                   \A d \in new :
                       /\ d.name # o
                       /\ scope_lookup(scope_table', r, "Var") = d.name
                       /\ (/\ o = name_format(r, scope_table.count[r] - 1)
                           /\ scope_table'.count[r] = scope_table.count[r] + 1)
                              => d.name = name_format(r, scope_table.count[r])
    /\ lastRef'.kind = "Var" =>
           /\ LiveIn(scope_table, "Var", lastRef'.raw) # {}
           /\ lastRef'.name = InnerName(scope_table, "Var", lastRef'.raw)
    /\ Len(ctl') < Len(ctl) =>
           \A r \in Raws : scope_lookup(scope_table', r, "Var") = Top.seen["Var", r]

Merged == mstatus = "merged"

ImportRefs == {r \in {linked[i] : i \in DOMAIN linked} : r.import}

LocalUse == package.use # NoUse /\ package.use.path[1] \in {"root", package_name}

ForeignUse == package.use # NoUse /\ package.use.path[1] \notin {"root", package_name}

\* The module path a `use` path is specified to give.
ExpectedModule(path) ==
    CASE path = <<"root", "test", "example">> -> "/root/test/example"
      [] path = <<package_name, "test", "example">> -> "/root/test/example"
      [] path = <<"std", "test", "example">> -> "std/test/example"
      [] path = <<"std", "io">> -> "std/io"

ExpectedKey(d) ==
    [module |-> IF d.module = Root THEN "/root" ELSE "/root/test/example",
     name |-> d.name]

KeyedIn(table, g) ==
    {f \in {"function_definitions", "struct_definitions", "global_var_definitions"} :
        g \in Keys(table, f)}

\* C3: a `use` whose path starts with `root` or the package name gives the
\* imported reference the global name {"/root" and the remaining segments,
\* the target's module-resolved name}, which is the key the target
\* definition is stored under.
C3_LocalImportNamesTarget ==
    \A r \in ImportRefs :
        LocalUse =>
            /\ r.global_resolved.module = ExpectedModule(package.use.path)
            /\ \E e \in Entries(private_definitions) :
                   /\ e.key = r.global_resolved
                   /\ e.def.raw = package.use.origin_name

\* C4: a `use` whose path starts with a foreign package name never fails the
\* merge; the imported reference gets {"<pkg>/<rest joined by />",
\* "0_<origin name>"}, and the definition tables hold only the package's own
\* definitions, none under the foreign module path.
C4_ForeignImport ==
    ForeignUse =>
        /\ mstatus # "failed"
        /\ \A r \in ImportRefs :
               r.global_resolved =
                   [module |-> ExpectedModule(package.use.path),
                    name |-> "0_" \o package.use.origin_name]
        /\ \A e \in Entries(private_definitions) \cup Entries(public_definitions) :
               /\ e.key.module # ExpectedModule(package.use.path)
               /\ \E d \in package.defs : e.key = ExpectedKey(d) /\ e.def.raw = d.raw

\* `mod test; use std::test::example::a; fn main() { a(); }` merged.
C4_Witness ==
    /\ Merged
    /\ package.use = [path |-> <<"std", "test", "example">>, origin_name |-> "a"]
    /\ package.defs = {MainDef, MDef(Example, "Fn", "a", 0, TRUE)}
    /\ \E r \in ImportRefs :
           r.global_resolved = [module |-> "std/test/example", name |-> "0_a"]
    /\ Len(private_definitions.function_definitions) = 2
    /\ Len(private_definitions.struct_definitions) = 0
    /\ Len(private_definitions.global_var_definitions) = 0

InTable(table, d) ==
    \E e \in Entries(table) : e.key = ExpectedKey(d) /\ e.def.raw = d.raw

\* C5 as stated: every definition is in exactly one of the two tables,
\* the public one if it is pub and the private one otherwise.
C5_ExactlyOnePartition ==
    Merged =>
        \A d \in package.defs :
            /\ d.pub => InTable(public_definitions, d) /\ ~InTable(private_definitions, d)
            /\ ~d.pub => InTable(private_definitions, d) /\ ~InTable(public_definitions, d)

\* C5 amended: after the merge every definition of every module, pub or
\* not, is in private_definitions, once, in the map of its kind, under the
\* key {module path, module-resolved name}, and private_definitions holds
\* nothing else; a definition that is not pub is not in public_definitions.
C5_AllInPrivate ==
    Merged =>
        /\ \A d \in package.defs :
               /\ KeyedIn(private_definitions, ExpectedKey(d)) = {MapOf(d.kind)}
               /\ Cardinality({i \in DOMAIN private_definitions[MapOf(d.kind)] :
                      private_definitions[MapOf(d.kind)][i].key = ExpectedKey(d)}) = 1
               /\ ~d.pub => ~InTable(public_definitions, d)
        /\ Cardinality(Entries(private_definitions)) = Cardinality(package.defs)

\* `mod test; fn main() {}` with `pub fn a() {}` in test/example.ing, merged:
\* both functions are in private_definitions.
C5_Witness ==
    /\ Merged
    /\ package.defs = {MainDef, MDef(Example, "Fn", "a", 0, TRUE)}
    /\ Keys(private_definitions, "function_definitions") =
           {[module |-> "/root", name |-> "0_main"],
            [module |-> "/root/test/example", name |-> "0_a"]}
    /\ Len(private_definitions.struct_definitions) = 0
    /\ Len(private_definitions.global_var_definitions) = 0

ForeignPrefix(g) ==
    \E p \in UsePaths : p[1] \notin {"root", package_name} /\ g.module = ExpectedModule(p)

ObservableNames ==
    {r.global_resolved : r \in {linked[i] : i \in DOMAIN linked}}
    \cup {e.def.global_resolved : e \in Entries(private_definitions)}

\* C6: after a successful merge every global name a reference carries is
\* the key of a definition in exactly one of the three definition maps, or
\* has a foreign-package module prefix.
C6_RoundTrip ==
    Merged =>
        \A g \in ObservableNames :
            Cardinality(KeyedIn(private_definitions, g)) = 1 \/ ForeignPrefix(g)

(***************************************************************************)
(* Properties of the type insertion pass.                                  *)
(***************************************************************************)
Seq_all(q, P(_)) == \A i \in DOMAIN q : P(q[i])

RECURSIVE FullyTyped(_)
FullyTyped(e) ==
    /\ e.type_ # NoType
    /\ CASE e.k = "FnCall" -> \A i \in DOMAIN e.args : FullyTyped(e.args[i])
         [] e.k = "StructInit" -> \A i \in DOMAIN e.fields : FullyTyped(e.fields[i])
         [] e.k = "Unary" -> FullyTyped(e.e)
         [] e.k = "Binary" -> FullyTyped(e.e0) /\ FullyTyped(e.e1)
         [] OTHER -> TRUE

RECURSIVE StatementTyped(_)
StatementTyped(x) ==
    CASE x.k = "VarDecl" -> x.expr = NoExpr \/ FullyTyped(x.expr)
      [] x.k \in {"VarAssign", "Return", "Expression"} -> FullyTyped(x.expr)
      [] x.k \in {"If", "While"} ->
             FullyTyped(x.cond) /\ \A i \in DOMAIN x.body : StatementTyped(x.body[i])

BodyOf(p, fn_name) == p.function_definitions[fn_name].body

\* C7: when insert_types has returned Ok, every expression reachable in the
\* program carries a type: in every statement of every function body, the
\* arguments of calls, the fields of struct initialisers, the operands of
\* unary and binary expressions and the conditions included, and in the
\* initializer of every global variable declaration.
C7_EveryExpressionTyped ==
    tstatus = "ok" =>
        /\ \A fn_name \in DOMAIN program.function_definitions :
               Seq_all(BodyOf(program, fn_name), StatementTyped)
        /\ Seq_all(program.global_var_definitions, StatementTyped)

\* C8: a second run of insert_types on a program the first run returned Ok
\* on never fails, and at every point of it (and so when it returns Ok) the
\* program is the one the first run left: the same definitions, the same
\* statements in the same order, the same types on every node.
C8_SecondRunChangesNothing ==
    run = 2 => tstatus \in {"running", "ok"} /\ program = first

C8_Witness ==
    /\ run = 2
    /\ tstatus = "ok"
    /\ program = first
    /\ Len(BodyOf(program, "f")) = 2
    /\ BodyOf(program, "f")[1] # BodyOf(program, "f")[2]
    /\ Seq_all(BodyOf(program, "f"), StatementTyped)

RECURSIVE follow(_, _)
follow(ty, path) ==
    IF path = <<>> THEN ty
    ELSE IF ty.tag # "Struct" \/ ty.ref \notin DOMAIN struct_definitions
              \/ Head(path) \notin DOMAIN struct_definitions[ty.ref].fields
         THEN NoType
         ELSE follow(struct_definitions[ty.ref].fields[Head(path)], Tail(path))

\* The type a name path denotes: the head variable's type, advanced through
\* the struct definitions by each segment of the path.
type_of_namepath(np) == follow(var_types[np.name], np.path)

RECURSIVE type_of(_)
type_of(e) ==
    CASE e.k = "Lit" -> literal_types(e.lit)
      [] e.k = "Variable" -> type_of_namepath(e)
      [] e.k = "FnCall" -> var_types[e.name]
      [] e.k = "StructInit" -> StructTy(e.name)
      [] e.k = "Unary" -> unop_type_resolver(e.op, type_of(e.e)).ty
      [] e.k = "Binary" -> binop_type_resolver(e.op, type_of(e.e0), type_of(e.e1)).ty

RECURSIVE Dotted(_)
Dotted(e) ==
    CASE e.k = "Variable" -> e.path # <<>>
      [] e.k = "Unary" -> Dotted(e.e)
      [] e.k = "Binary" -> Dotted(e.e0) \/ Dotted(e.e1)
      [] OTHER -> FALSE

C10_VarAssignFollowsPath ==
    LET x == lastStmt.before
        after == lastStmt.after
    IN  x.k = "VarAssign" /\ after.expr.type_ # NoType =>
            /\ lastStmt.err = "None" <=>
                   type_of_namepath(x.name_path) = after.expr.type_
            /\ lastStmt.err \in {"None", "MultipleTypes"}

\* C11: when the statement the pass visited last is a Return whose
\* expression got a type, the pass failed on it with ReturnMismatch exactly
\* when that type is not the return type of the function the statement is
\* in, and went past it without an error exactly when the two are equal.
C11_ReturnMismatch ==
    LET x == lastStmt.before
        after == lastStmt.after
        return_type == program.function_definitions[lastFn].return_type
    IN  x.k = "Return" /\ after.expr.type_ # NoType =>
            /\ lastStmt.err = "ReturnMismatch" <=> after.expr.type_ # return_type
            /\ lastStmt.err = "None" <=> after.expr.type_ = return_type

RECURSIVE Untyped(_)
Untyped(e) ==
    CASE e.k = "FnCall" ->
             [e EXCEPT !.type_ = NoType, !.args = [i \in DOMAIN e.args |-> Untyped(e.args[i])]]
      [] e.k = "StructInit" ->
             [e EXCEPT !.type_ = NoType,
                       !.fields = [i \in DOMAIN e.fields |-> Untyped(e.fields[i])]]
      [] e.k = "Unary" -> [e EXCEPT !.type_ = NoType, !.e = Untyped(e.e)]
      [] e.k = "Binary" ->
             [e EXCEPT !.type_ = NoType, !.e0 = Untyped(e.e0), !.e1 = Untyped(e.e1)]
      [] e.k = "NoExpr" -> e
      [] OTHER -> [e EXCEPT !.type_ = NoType]

\* A statement with every type annotation taken off.
RECURSIVE Bare(_)
Bare(x) ==
    CASE x.k = "VarDecl" ->
             [x EXCEPT !.var_def.type_ = NoType, !.expr = Untyped(x.expr)]
      [] x.k \in {"VarAssign", "Return", "Expression"} -> [x EXCEPT !.expr = Untyped(x.expr)]
      [] x.k \in {"If", "While"} ->
             [x EXCEPT !.cond = Untyped(x.cond),
                       !.body = [i \in DOMAIN x.body |-> Bare(x.body[i])]]

BareBody(p, fn_name) ==
    [i \in DOMAIN BodyOf(p, fn_name) |-> Bare(BodyOf(p, fn_name)[i])]

\* C14: whenever insert_types has returned, with Ok or with an error, every
\* function body holds the statements it held before the call, in the same
\* order and differing at most in type annotations: the body of the
\* function the error was found in and those of the functions not yet
\* visited included.
C14_StatementsKept ==
    tstatus \in {"ok", "err", "panic"} =>
        \A fn_name \in DOMAIN program.function_definitions :
            BareBody(program, fn_name) = BareBody(first, fn_name)

(***************************************************************************)
(* Properties of get_type_from_name_path.                                  *)
(***************************************************************************)
\* C12: once get_type_from_name_path has been applied to a name path, it
\* has not panicked; for a path that names a field the struct reached does
\* not have, or that goes on past a type that is no struct, the outcome is
\* the error BadFieldAccess; and for an empty path the outcome is the type
\* var_types holds for the head variable.
C12_BadFieldAccessNoPanic ==
    result # NoResult =>
        /\ result.status # "panicked"
        /\ type_of_namepath(name_path) = NoType => result.status = "BadFieldAccess"
        /\ name_path.path = <<>> => result = Returned(var_types[name_path.name])

(***************************************************************************)
(* Further properties of the resolution walk.                              *)
(***************************************************************************)
\* C13: a reference site is given a resolved name only when its raw name
\* has a binding of the kind the site expects in some frame of the scope
\* table, be it the head of a name path, the name of a call or the struct
\* a VarDef's type names; and a walk that failed with UndefinedVariable
\* names a raw name.
C13_UndefinedReferenceFails ==
    /\ lastRef.kind # "None" =>
           scope_lookup(scope_table, lastRef.raw, lastRef.kind) # None
    /\ status = "err" /\ err.type = "UndefinedVariable" => err.raw \in Raws

\* C15: when the walk has returned, with Ok or with an error raised
\* anywhere inside it, every call of Block::resolve and FnDef::resolve has
\* returned with as many frames in the scope table as it was entered with,
\* and with the lookups that held when it was entered: the whole walk
\* returns with no frame left, and a call an error went through has neither
\* left a frame nor a binding behind.
C15_ScopesBalanced ==
    /\ status = "ok" => Len(scope_table.frames) = 0
    /\ status = "err" =>
           \A i \in DOMAIN ctl :
               /\ Len(scope_table.frames) = ctl[i].depth
               /\ Seen(scope_table) = ctl[i].seen

====
